---- MODULE Spec2Model ----
(***************************************************************************)
(* Price-oracle client (class Oracle, src/unnamed/part_000) and the         *)
(* repeating scheduler AsyncInterval (src/docker/README.md, lines 44-67).  *)
(*                                                                         *)
(* JavaScript runs the calls on one thread: a call runs without            *)
(* interruption up to its next `await`.  Each action below is one such     *)
(* uninterrupted segment of getPrice, getCurrencies or load; the network   *)
(* (the response of a fetch, the body that json() yields) is the           *)
(* environment and is chosen with \E when the awaited promise settles.     *)
(***************************************************************************)
EXTENDS Integers, Sequences, FiniteSets, TLC

(* ------------------------------ bounds --------------------------------- *)
\* number of call slots: calls that can be in flight at the same time
MaxCalls == 2
\* exchange rates carried by the records of a response are 1..MaxValue
MaxValue == 2
\* longest list a /currencies response carries
MaxList == 2
\* load() calls made in one behaviour (bounds the log of the event bus)
MaxLoads == 1
\* delays, in clock ticks, of an AsyncInterval and of its clearInterval calls
\* are 0..MaxDelay
MaxDelay == 2
\* clearInterval calls made on one AsyncInterval in one behaviour
MaxClears == 2

(* ------------------------- program constants --------------------------- *)
ORACLE_RETRY_LIMIT == 3
FALLBACK_CURRENCIES == <<"usd", "eur", "gbp", "btc">>

\* the keys the cache can get: the fallback codes and one code outside them
Codes == {"usd", "eur", "gbp", "btc", "jpy"}
\* the order in which the model lists the keys of the cache
KeyOrder == <<"usd", "eur", "gbp", "btc", "jpy">>
\* the codes callers pass to getPrice
AskedCodes == {"usd"}

(* --------------------------- JavaScript values ------------------------- *)
Null == [kind |-> "null"]
Undefined == [kind |-> "undefined"]
Num(n) == [kind |-> "num", n |-> n]
List(s) == [kind |-> "list", items |-> s]
\* a Currency record; origin is a history tag (last_updated is not modelled):
\* "net" for a record parsed from a response, "fallback" for a seeded one
Currency(c, v, o) == [kind |-> "rec", currency |-> c, value |-> v, origin |-> o]

\* the records responses carry: usd at the rates 1..MaxValue, jpy at rate 1
NetRecords == {Currency("usd", v, "net") : v \in 1..MaxValue} \cup {Currency("jpy", 1, "net")}

RECURSIVE SeqsUpTo(_, _)
SeqsUpTo(S, n) ==
    IF n = 0 THEN {<<>>}
    ELSE LET shorter == SeqsUpTo(S, n - 1)
         IN  shorter \cup {Append(s, e) : s \in {t \in shorter : Len(t) = n - 1}, e \in S}

\* what the fetch promise settles to
Responses == {"reject", "http404", "httpErr", "ok"}
\* what `await cReq.json()` yields for /price/{code}: a rejection (body is
\* not JSON), the JSON value null, or a Currency record
Unparsable == [kind |-> "unparsable"]
PriceBodies == {Unparsable, Null} \cup NetRecords
\* ... and for /currencies: a rejection, null, a non-array (an object),
\* or an array (empty or not) of records and nulls
CurrenciesBodies ==
    {Unparsable, Null} \cup NetRecords
        \cup {List(s) : s \in SeqsUpTo(NetRecords \cup {Null}, MaxList)}

(* ------------------------- Map<string, Currency> ----------------------- *)
\* a Map is the function from its possible keys to the value stored under
\* the key, Undefined for a key it does not have (what Map.get returns).
\* The insertion order of a Map, which only orders the array that
\* getCachedCurrencies returns, is not modelled: values are listed in KeyOrder.
EmptyMap == [k \in Codes |-> Undefined]
MapHas(m, k) == m[k] # Undefined
MapGet(m, k) == m[k]
MapSet(m, k, v) == [m EXCEPT ![k] = v]
MapValues(m) ==
    LET Has(k) == MapHas(m, k)
        keys == SelectSeq(KeyOrder, Has)
    IN  [i \in 1..Len(keys) |-> m[keys[i]]]

VARIABLES
    ORACLE_ENABLED,     \* the build-time toggle read by the constructor
    mapCurrencies,      \* the currencies cache map
    fLoadedCurrencies,  \* #fLoadedCurrencies
    nOracleFailures,    \* #nOracleFailures
    fOracleDisabled,    \* #fOracleDisabled
    nDisabledWarn,      \* number of 'Oracle disabled: ...' diagnostics logged
    calls,              \* per call slot: the call in flight and where it is suspended
    bus,                \* the events emitted on the event bus, in order
    nLoadsDone,         \* history: load() calls completed
    nFailStreak,        \* history: completions that ended as a failure since the last successful one
    last,               \* history: the segment that ran last and what it returned
    active,             \* AsyncInterval: #active
    loop,               \* AsyncInterval: where #setInterval is suspended
    timeOut,            \* AsyncInterval: the delay given to the constructor
    timers,             \* the pending setTimeout timers of the interval, oldest first
    hist                \* history of the interval: last step, clearInterval calls, ...

oracleVars == <<ORACLE_ENABLED, mapCurrencies, fLoadedCurrencies, nOracleFailures,
                fOracleDisabled, nDisabledWarn, calls, bus, nLoadsDone,
                nFailStreak, last>>
intervalVars == <<active, loop, timeOut, timers, hist>>
vars == <<oracleVars, intervalVars>>

Slots == 1..MaxCalls
\* the history counter nFailStreak saturates here
StreakCap == ORACLE_RETRY_LIMIT

(* ----------------- the private state as one value ---------------------- *)
OracleState(m, l, n, d, w) ==
    [map |-> m, loaded |-> l, failures |-> n, disabled |-> d, warned |-> w]

This == OracleState(mapCurrencies, fLoadedCurrencies, nOracleFailures,
                    fOracleDisabled, nDisabledWarn)

markOracleSuccess(o) == [o EXCEPT !.failures = 0]

\* mutant: the seeding overwrites what is cached under a fallback code
RECURSIVE SeedFrom_Overwrites(_, _)
SeedFrom_Overwrites(m, i) ==
    IF i > Len(FALLBACK_CURRENCIES) THEN m
    ELSE LET currency == FALLBACK_CURRENCIES[i]
         IN  SeedFrom_Overwrites(MapSet(m, currency, Currency(currency, 0, "fallback")), i + 1)

RECURSIVE SeedFrom(_, _)
SeedFrom(m, i) ==
    IF i > Len(FALLBACK_CURRENCIES) THEN m
    ELSE LET currency == FALLBACK_CURRENCIES[i]
         IN  SeedFrom(IF ~MapHas(m, currency)
                      THEN MapSet(m, currency, Currency(currency, 0, "fallback"))
                      ELSE m,
                      i + 1)

\* mutant: the seeding stops before the last fallback code
ensureFallbackCurrencies_DropsLast(o) ==
    LET last_ == FALLBACK_CURRENCIES[Len(FALLBACK_CURRENCIES)]
    IN  [o EXCEPT !.map = [SeedFrom(o.map, 1) EXCEPT ![last_] = o.map[last_]]]

ensureFallbackCurrencies(o) == [o EXCEPT !.map = SeedFrom(o.map, 1)]

\* mutant: #disableOracle has no early return for an oracle already disabled
disableOracle_NotGuarded(o) ==
    [ensureFallbackCurrencies([o EXCEPT !.disabled = TRUE])
        EXCEPT !.loaded = TRUE, !.warned = @ + 1]

\* mutant: #disableOracle does not set the loaded flag
disableOracle_NotLoaded(o) ==
    IF o.disabled THEN o
    ELSE [ensureFallbackCurrencies([o EXCEPT !.disabled = TRUE])
            EXCEPT !.warned = @ + 1]

disableOracle(o) ==
    IF o.disabled THEN o
    ELSE [ensureFallbackCurrencies([o EXCEPT !.disabled = TRUE])
            EXCEPT !.loaded = TRUE, !.warned = @ + 1]

\* mutant: the oracle is disabled only once the counter is above the limit
markOracleFailure_AboveLimit(o) ==
    LET o1 == [o EXCEPT !.failures = @ + 1]
    IN  IF o1.failures > ORACLE_RETRY_LIMIT THEN disableOracle(o1) ELSE o1

markOracleFailure(o) ==
    LET o1 == [o EXCEPT !.failures = @ + 1]
    IN  IF o1.failures >= ORACLE_RETRY_LIMIT THEN disableOracle(o1) ELSE o1

\* this.mapCurrencies.get(strCurrency)?.value || 0
getCachedPrice(o, strCurrency) ==
    LET c == MapGet(o.map, strCurrency)
    IN  IF c.kind = "rec" /\ c.value # 0 THEN Num(c.value) ELSE Num(0)

getCachedCurrencies(o) == List(MapValues(o.map))

\* mutant: the constructor ignores ORACLE_ENABLED
Constructor_StaysActive(enabled) == OracleState(EmptyMap, FALSE, 0, FALSE, 0)

\* mutant: the constructor does not mark a disabled oracle as loaded
Constructor_NotLoaded(enabled) ==
    LET o == OracleState(EmptyMap, FALSE, 0, FALSE, 0)
    IN  IF ~enabled
        THEN ensureFallbackCurrencies([o EXCEPT !.disabled = TRUE])
        ELSE o

\* new Oracle()
Constructor(enabled) ==
    LET o == OracleState(EmptyMap, FALSE, 0, FALSE, 0)
    IN  IF ~enabled
        THEN [ensureFallbackCurrencies([o EXCEPT !.disabled = TRUE]) EXCEPT !.loaded = TRUE]
        ELSE o

(* ------------------------------ getPrice ------------------------------- *)
\* what a segment hands back: the new private state, the value the call
\* resolves with, and how the segment ended
\*   "skipped"  returned from the cache because the oracle is disabled
\*   "fetch"    suspended at `await fetch(...)`
\*   "json"     suspended at `await cReq.json()`
\*   "notfound" returned after a 404
\*   "failure"  returned after #markOracleFailure
\*   "success"  returned from the success path
Ended(o, ret, how) == [o |-> o, ret |-> ret, how |-> how]

\* mutant: getPrice does not test the disabled flag
getPriceCall_AlwaysFetches(o, strCurrency) == Ended(o, Undefined, "fetch")

\* line 116 up to the await of line 118
getPriceCall(o, strCurrency) ==
    IF o.disabled THEN Ended(o, getCachedPrice(o, strCurrency), "skipped")
    ELSE Ended(o, Undefined, "fetch")

\* mutant: a 404 is counted as one more failure instead of disabling at once
getPriceFetched_CountsNotFound(o, strCurrency, resp) ==
    CASE resp \in {"reject", "httpErr"} ->
            LET o1 == markOracleFailure(o)
            IN  Ended(o1, getCachedPrice(o1, strCurrency), "failure")
      [] resp = "http404" ->
            LET o1 == markOracleFailure(o)
            IN  Ended(o1, getCachedPrice(o1, strCurrency), "notfound")
      [] resp = "ok" -> Ended(o, Undefined, "json")

\* the fetch of line 118 settles: lines 121-128, or the catch of lines 139-149
getPriceFetched(o, strCurrency, resp) ==
    CASE resp = "reject" ->
            LET o1 == markOracleFailure(o)
            IN  Ended(o1, getCachedPrice(o1, strCurrency), "failure")
      [] resp = "http404" ->
            LET o1 == disableOracle(o)
            IN  Ended(o1, getCachedPrice(o1, strCurrency), "notfound")
      [] resp = "httpErr" ->
            LET o1 == markOracleFailure(o)
            IN  Ended(o1, getCachedPrice(o1, strCurrency), "failure")
      [] resp = "ok" -> Ended(o, Undefined, "json")

\* mutant: the TypeError of `cCurrency.value` on a null body escapes the call
getPriceParsed_NullEscapes(o, strCurrency, cCurrency) ==
    IF cCurrency = Unparsable
    THEN LET o1 == markOracleFailure(o)
         IN  Ended(o1, getCachedPrice(o1, strCurrency), "failure")
    ELSE LET o1 == markOracleSuccess(o)
             o2 == [o1 EXCEPT !.map = MapSet(o1.map, strCurrency, cCurrency)]
         IN  IF cCurrency = Null
             THEN Ended(o2, Undefined, "rejected")
             ELSE Ended(o2, Num(cCurrency.value), "success")

\* mutant: the record is stored under its own currency field
getPriceParsed_KeyedByRecord(o, strCurrency, cCurrency) ==
    IF cCurrency = Unparsable
    THEN LET o1 == markOracleFailure(o)
         IN  Ended(o1, getCachedPrice(o1, strCurrency), "failure")
    ELSE LET o1 == markOracleSuccess(o)
         IN  IF cCurrency = Null
             THEN LET o3 == markOracleFailure(o1)
                  IN  Ended(o3, getCachedPrice(o3, strCurrency), "failure")
             ELSE Ended([o1 EXCEPT !.map = MapSet(o1.map, cCurrency.currency, cCurrency)],
                        Num(cCurrency.value), "success")

\* cReq.json() of line 131 settles: lines 132-138, or the catch of lines 139-149
getPriceParsed(o, strCurrency, cCurrency) ==
    IF cCurrency = Unparsable
    THEN LET o1 == markOracleFailure(o)
         IN  Ended(o1, getCachedPrice(o1, strCurrency), "failure")
    ELSE LET o1 == markOracleSuccess(o)
             o2 == [o1 EXCEPT !.map = MapSet(o1.map, strCurrency, cCurrency)]
         IN  IF cCurrency = Null
             \* `cCurrency.value` throws a TypeError, caught at line 139
             THEN LET o3 == markOracleFailure(o2)
                  IN  Ended(o3, getCachedPrice(o3, strCurrency), "failure")
             ELSE Ended(o2, Num(cCurrency.value), "success")

(* ---------------------------- getCurrencies ---------------------------- *)
\* line 161 up to the await of line 163
getCurrenciesCall(o) ==
    IF o.disabled THEN Ended(o, getCachedCurrencies(o), "skipped")
    ELSE Ended(o, Undefined, "fetch")

\* the fetch of line 163 settles: lines 166-173, or the catch of lines 191-197
getCurrenciesFetched(o, resp) ==
    CASE resp = "reject" ->
            LET o1 == markOracleFailure(o)
            IN  Ended(o1, getCachedCurrencies(o1), "failure")
      [] resp = "http404" ->
            LET o1 == disableOracle(o)
            IN  Ended(o1, getCachedCurrencies(o1), "notfound")
      [] resp = "httpErr" ->
            LET o1 == markOracleFailure(o)
            IN  Ended(o1, getCachedCurrencies(o1), "failure")
      [] resp = "ok" -> Ended(o, Undefined, "json")

\* mutant: the loop does not replace a record it has already cached
RECURSIVE UpsertFrom_KeepsCached(_, _, _)
UpsertFrom_KeepsCached(m, arr, i) ==
    IF i > Len(arr) THEN [map |-> m, threw |-> FALSE]
    ELSE IF arr[i] = Null THEN [map |-> m, threw |-> TRUE]
    ELSE UpsertFrom_KeepsCached(IF MapHas(m, arr[i].currency) THEN m
                                ELSE MapSet(m, arr[i].currency, arr[i]),
                                arr, i + 1)

\* the loop of lines 184-186 from element i on; it stops at the first null
\* element, where `cCurrency.currency` throws
RECURSIVE UpsertFrom(_, _, _)
UpsertFrom(m, arr, i) ==
    IF i > Len(arr) THEN [map |-> m, threw |-> FALSE]
    ELSE IF arr[i] = Null THEN [map |-> m, threw |-> TRUE]
    ELSE UpsertFrom(MapSet(m, arr[i].currency, arr[i]), arr, i + 1)

\* cReq.json() of line 176 settles: lines 177-190, or the catch of lines 191-197
getCurrenciesParsed(o, arrCurrencies) ==
    IF arrCurrencies = Unparsable
    THEN LET o1 == markOracleFailure(o)
         IN  Ended(o1, getCachedCurrencies(o1), "failure")
    ELSE IF arrCurrencies.kind # "list" \/ Len(arrCurrencies.items) = 0
    THEN LET o1 == markOracleFailure(o)
         IN  Ended(o1, getCachedCurrencies(o1), "failure")
    ELSE LET o1 == markOracleSuccess(o)
             up == UpsertFrom(o1.map, arrCurrencies.items, 1)
             o2 == [o1 EXCEPT !.map = up.map]
         IN  IF up.threw
             THEN LET o3 == markOracleFailure(o2)
                  IN  Ended(o3, getCachedCurrencies(o3), "failure")
             ELSE Ended([o2 EXCEPT !.loaded = TRUE], arrCurrencies, "success")

(* ------------------------------- actions ------------------------------- *)
Idle == [op |-> "none", pc |-> "idle", code |-> ""]
InCall(op, pc, code) == [op |-> op, pc |-> pc, code |-> code]

\* a new call takes the first free slot (the slots are interchangeable)
Free(p) == calls[p] = Idle /\ \A q \in 1..(p - 1) : calls[q] # Idle

\* the calls suspended at `await fetch(...)`: the network requests in flight
InFlight == {p \in Slots : calls[p].pc = "fetch"}

Min(a, b) == IF a < b THEN a ELSE b

\* the assignments a segment makes to the private state, and the history of it
Commit(p, act, code, body, r) ==
    /\ mapCurrencies' = r.o.map
    /\ fLoadedCurrencies' = r.o.loaded
    /\ nOracleFailures' = r.o.failures
    /\ fOracleDisabled' = r.o.disabled
    /\ nDisabledWarn' = r.o.warned
    /\ nFailStreak' = CASE r.how = "failure" -> Min(nFailStreak + 1, StreakCap)
                        [] r.how = "success" -> 0
                        [] OTHER -> nFailStreak
    /\ last' = [act |-> act, slot |-> p, code |-> code,
                body |-> IF r.how = "success" THEN body ELSE Undefined,
                how |-> r.how, ret |-> r.ret, wasDisabled |-> fOracleDisabled]
    /\ UNCHANGED ORACLE_ENABLED
    /\ UNCHANGED intervalVars

\* where a getPrice / getCurrencies call is after a segment that ended `how`
After(op, code, how) ==
    IF how \in {"fetch", "json"} THEN InCall(op, how, code) ELSE Idle

GetPriceCall(p, strCurrency) ==
    /\ Free(p)
    /\ LET r == getPriceCall(This, strCurrency)
       IN  /\ Commit(p, "getPrice", strCurrency, Undefined, r)
           /\ calls' = [calls EXCEPT ![p] = After("getPrice", strCurrency, r.how)]
    /\ UNCHANGED <<bus, nLoadsDone>>

GetPriceFetched(p, resp) ==
    /\ calls[p].op = "getPrice" /\ calls[p].pc = "fetch"
    /\ LET r == getPriceFetched(This, calls[p].code, resp)
       IN  /\ Commit(p, "getPrice", calls[p].code, Undefined, r)
           /\ calls' = [calls EXCEPT ![p] = After("getPrice", calls[p].code, r.how)]
    /\ UNCHANGED <<bus, nLoadsDone>>

GetPriceParsed(p, body) ==
    /\ calls[p].op = "getPrice" /\ calls[p].pc = "json"
    /\ LET r == getPriceParsed(This, calls[p].code, body)
       IN  /\ Commit(p, "getPrice", calls[p].code, body, r)
           /\ calls' = [calls EXCEPT ![p] = After("getPrice", calls[p].code, r.how)]
    /\ UNCHANGED <<bus, nLoadsDone>>

GetCurrenciesCall(p) ==
    /\ Free(p)
    /\ LET r == getCurrenciesCall(This)
       IN  /\ Commit(p, "getCurrencies", "", Undefined, r)
           /\ calls' = [calls EXCEPT ![p] = After("getCurrencies", "", r.how)]
    /\ UNCHANGED <<bus, nLoadsDone>>

GetCurrenciesFetched(p, resp) ==
    /\ calls[p].op = "getCurrencies" /\ calls[p].pc = "fetch"
    /\ LET r == getCurrenciesFetched(This, resp)
       IN  /\ Commit(p, "getCurrencies", "", Undefined, r)
           /\ calls' = [calls EXCEPT ![p] = After("getCurrencies", "", r.how)]
    /\ UNCHANGED <<bus, nLoadsDone>>

GetCurrenciesParsed(p, body) ==
    /\ calls[p].op = "getCurrencies" /\ calls[p].pc = "json"
    /\ LET r == getCurrenciesParsed(This, body)
       IN  /\ Commit(p, "getCurrencies", "", body, r)
           /\ calls' = [calls EXCEPT ![p] = After("getCurrencies", "", r.how)]
    /\ UNCHANGED <<bus, nLoadsDone>>

(* -------------------------------- load --------------------------------- *)
\* mutant: 'price-update' is emitted before 'currency-loaded'
loadLoop_SwapsEvents(o, events) ==
    IF ~o.loaded
    THEN LET r == getCurrenciesCall(o)
         IN  [o |-> r.o, ret |-> Undefined, events |-> events,
              how |-> IF r.how = "fetch" THEN "fetch" ELSE "returned"]
    ELSE [o |-> o, ret |-> Undefined,
          events |-> Append(Append(events, "price-update"), "currency-loaded"),
          how |-> "loaded"]

\* mutant: load() calls getCurrencies again whatever the loaded flag says
loadLoop_IgnoresLoaded(o, events) ==
    LET r == getCurrenciesCall(o)
    IN  [o |-> r.o, ret |-> Undefined, events |-> events,
         how |-> IF r.how = "fetch" THEN "fetch" ELSE "returned"]

\* the test of line 201 and what follows it without an await: either the call
\* of getCurrencies of line 202 up to its first await, or the two emits of
\* lines 206 and 208 and the end of load()
loadLoop(o, events) ==
    IF ~o.loaded
    THEN LET r == getCurrenciesCall(o)
         IN  [o |-> r.o, ret |-> Undefined, events |-> events,
              how |-> IF r.how = "fetch" THEN "fetch" ELSE "returned"]
    ELSE [o |-> o, ret |-> Undefined,
          events |-> Append(Append(events, "currency-loaded"), "price-update"),
          how |-> "loaded"]

\* load() resumes after `await this.getCurrencies()`: line 203, and when it
\* does not sleep, the next test of line 201
loadResumed(o, events) ==
    IF ~o.loaded
    THEN [o |-> o, ret |-> Undefined, events |-> events, how |-> "sleep"]
    ELSE loadLoop(o, events)

\* where a load() call is after a segment that ended `how`
AfterLoad(how) ==
    CASE how \in {"fetch", "json", "sleep"} -> InCall("load", how, "")
      [] how \in {"returned", "notfound", "failure", "success"} -> InCall("load", "returned", "")
      [] how = "loaded" -> Idle

LoadStep(p, body, r) ==
    /\ Commit(p, "load", "", body, r)
    /\ calls' = [calls EXCEPT ![p] = AfterLoad(r.how)]
    /\ bus' = r.events
    /\ nLoadsDone' = IF r.how = "loaded" THEN nLoadsDone + 1 ELSE nLoadsDone

LoadCall(p) ==
    /\ Free(p)
    /\ nLoadsDone + Cardinality({q \in Slots : calls[q].op = "load"}) < MaxLoads
    /\ LoadStep(p, Undefined, loadLoop(This, bus))

\* the getCurrencies call made by load(): its fetch settles
LoadFetched(p, resp) ==
    /\ calls[p].op = "load" /\ calls[p].pc = "fetch"
    /\ LET r == getCurrenciesFetched(This, resp)
       IN  LoadStep(p, Undefined, [o |-> r.o, ret |-> r.ret, events |-> bus, how |-> r.how])

\* the getCurrencies call made by load(): its json() settles
LoadParsed(p, body) ==
    /\ calls[p].op = "load" /\ calls[p].pc = "json"
    /\ LET r == getCurrenciesParsed(This, body)
       IN  LoadStep(p, body, [o |-> r.o, ret |-> r.ret, events |-> bus, how |-> r.how])

LoadResumed(p) ==
    /\ calls[p].op = "load" /\ calls[p].pc = "returned"
    /\ LoadStep(p, Undefined, loadResumed(This, bus))

\* sleep(5000) of line 203 is over: the test of line 201 again
LoadWoke(p) ==
    /\ calls[p].op = "load" /\ calls[p].pc = "sleep"
    /\ LoadStep(p, Undefined, loadLoop(This, bus))

(* ---------------------------- AsyncInterval ---------------------------- *)
\* the interval as one value; loop is where #setInterval is:
\*   "cb"        suspended at `await cb()`, the callback's promise pending
\*   "sleep"     suspended at `await sleep(timeOut)`
\*   "done"      the while test failed, the loop has returned
\*   "rejected"  an error escaped the loop (its promise is rejected)
Interval(a, l, t) == [active |-> a, loop |-> l, timers |-> t]
ThisInterval == Interval(active, loop, timers)

Delays == 0..MaxDelay
\* setTimeout(f, ms): what f does, the ticks left, and the delay asked for
Timer(what, ms) == [what |-> what, left |-> ms, ms |-> ms]

\* sleep(timeOut) of line 59: a promise resolved by a timer
sleep(i, ms) ==
    [i EXCEPT !.loop = "sleep", !.timers = Append(@, Timer("sleep", ms))]

\* mutant: no try/catch around `await cb()`
afterCallback_NoCatch(i, ms, outcome) ==
    IF outcome \in {"throw", "reject"} THEN [i EXCEPT !.loop = "rejected"]
    ELSE sleep(i, ms)

\* lines 52-59 once cb() has thrown or its promise has settled: a failure is
\* caught and logged (line 57), and in every case the loop sleeps
afterCallback(i, ms, outcome) == sleep(i, ms)

\* mutant: the loop is `while (true)`
setInterval_Forever(i, ms, outcome) ==
    IF outcome = "throw" THEN afterCallback(i, ms, outcome)
    ELSE [i EXCEPT !.loop = "cb"]

\* the while test of line 51 and, when it passes, the call of cb() of line 53:
\* cb throws at once, or returns a promise (or a value) that is awaited
setInterval(i, ms, outcome) ==
    IF ~i.active THEN [i EXCEPT !.loop = "done"]
    ELSE IF outcome = "throw" THEN afterCallback(i, ms, outcome)
    ELSE [i EXCEPT !.loop = "cb"]

\* mutant: clearInterval stops the interval at once
clearInterval_Immediate(i, ms) == [i EXCEPT !.active = FALSE]

\* clearInterval(timeOut), lines 62-66
clearInterval(i, ms) ==
    [i EXCEPT !.timers = Append(@, Timer("clear", ms))]

\* the history of an interval: the kind of its last step, the number of
\* invocations of cb (counted up to InvokedCap), the number of clearInterval
\* calls, whether an invocation of cb has ever succeeded, whether
\* clearInterval(0) has been called on the running interval, and the number of
\* invocations of cb in flight at that call or started after it
InvokedCap == 3
SinceCap == 3
History(l, v, c, ok, z, n) ==
    [last |-> l, invoked |-> v, clears |-> c, everOk |-> ok, zeroed |-> z, since |-> n]
NoHistory == History("none", 0, 0, FALSE, FALSE, 0)

\* timer k is due, and no timer set before it with a delay no longer than
\* its own is still waiting (the order setTimeout guarantees)
MayFire(k) ==
    /\ k \in 1..Len(timers) /\ timers[k].left = 0
    /\ \A j \in 1..(k - 1) : ~(timers[j].left = 0 /\ timers[j].ms <= timers[k].ms)

Without(seq, k) == [j \in 1..(Len(seq) - 1) |-> IF j < k THEN seq[j] ELSE seq[j + 1]]

Become(i) ==
    /\ active' = i.active /\ loop' = i.loop /\ timers' = i.timers
    /\ UNCHANGED timeOut
    /\ UNCHANGED oracleVars

\* the promise returned by cb() settles
CbSettles(outcome) ==
    /\ loop = "cb"
    /\ Become(afterCallback(ThisInterval, timeOut, outcome))
    /\ hist' = [hist EXCEPT !.last = "settle", !.everOk = @ \/ outcome = "resolve"]

\* the timer of a sleep fires: the loop is back at the while test
SleepFires(k, outcome) ==
    /\ MayFire(k) /\ timers[k].what = "sleep"
    /\ Become(setInterval([ThisInterval EXCEPT !.timers = Without(@, k)], timeOut, outcome))
    /\ hist' = [hist EXCEPT
                    !.last = IF loop' = "done" THEN "exit" ELSE "invoke",
                    !.invoked = IF loop' = "done" THEN @ ELSE Min(@ + 1, InvokedCap),
                    !.since = IF loop' # "done" /\ hist.zeroed
                              THEN Min(@ + 1, SinceCap) ELSE @]

\* the timer of a clearInterval fires: line 64
ClearFires(k) ==
    /\ MayFire(k) /\ timers[k].what = "clear"
    /\ Become([ThisInterval EXCEPT !.active = FALSE, !.timers = Without(@, k)])
    /\ hist' = [hist EXCEPT !.last = "fired"]

\* the clock advances by one tick; a timer that is due fires first
Tick ==
    /\ timers # <<>>
    /\ \A k \in 1..Len(timers) : timers[k].left > 0
    /\ Become([ThisInterval EXCEPT
                !.timers = [k \in 1..Len(timers) |-> [timers[k] EXCEPT !.left = @ - 1]]])
    /\ hist' = [hist EXCEPT !.last = "tick"]

\* some code calls clearInterval(ms)
ClearInterval(ms) ==
    /\ loop # "none"
    /\ hist.clears < MaxClears
    /\ Become(clearInterval(ThisInterval, ms))
    /\ LET first == ms = 0 /\ ~hist.zeroed /\ loop \in {"cb", "sleep"}
       IN  hist' = [hist EXCEPT
                        !.last = "clear", !.clears = @ + 1,
                        !.zeroed = @ \/ first,
                        !.since = IF first THEN (IF loop = "cb" THEN 1 ELSE 0) ELSE @]

(* ---------------------------- specification ---------------------------- *)
\* new Oracle(), no call made yet
NewOracle ==
    /\ ORACLE_ENABLED \in BOOLEAN
    /\ LET o == Constructor(ORACLE_ENABLED)
       IN  /\ mapCurrencies = o.map
           /\ fLoadedCurrencies = o.loaded
           /\ nOracleFailures = o.failures
           /\ fOracleDisabled = o.disabled
           /\ nDisabledWarn = o.warned
    /\ calls = [p \in Slots |-> Idle]
    /\ bus = <<>>
    /\ nLoadsDone = 0
    /\ nFailStreak = 0
    /\ last = [act |-> "new", slot |-> 0, code |-> "", body |-> Undefined,
               how |-> "constructed", ret |-> Undefined, wasDisabled |-> FALSE]

\* the oracle on its own: no AsyncInterval has been constructed
Init ==
    /\ NewOracle
    /\ active = TRUE /\ loop = "none" /\ timeOut = 0 /\ timers = <<>>
    /\ hist = NoHistory

Next ==
    \/ \E p \in Slots, strCurrency \in AskedCodes : GetPriceCall(p, strCurrency)
    \/ \E p \in Slots, resp \in Responses : GetPriceFetched(p, resp)
    \/ \E p \in Slots, body \in PriceBodies : GetPriceParsed(p, body)
    \/ \E p \in Slots : GetCurrenciesCall(p)
    \/ \E p \in Slots, resp \in Responses : GetCurrenciesFetched(p, resp)
    \/ \E p \in Slots, body \in CurrenciesBodies : GetCurrenciesParsed(p, body)
    \/ \E p \in Slots : LoadCall(p)
    \/ \E p \in Slots, resp \in Responses : LoadFetched(p, resp)
    \/ \E p \in Slots, body \in CurrenciesBodies : LoadParsed(p, body)
    \/ \E p \in Slots : LoadResumed(p)
    \/ \E p \in Slots : LoadWoke(p)

Spec == Init /\ [][Next]_vars

\* what the event loop does for the call in slot p without the caller: the
\* request in flight settles, the body is read, the continuation of an await
\* runs, the timer of sleep(5000) fires
Settles(p) ==
    \/ \E resp \in Responses : GetPriceFetched(p, resp)
    \/ \E body \in PriceBodies : GetPriceParsed(p, body)
    \/ \E resp \in Responses : GetCurrenciesFetched(p, resp)
    \/ \E body \in CurrenciesBodies : GetCurrenciesParsed(p, body)
    \/ \E resp \in Responses : LoadFetched(p, resp)
    \/ \E body \in CurrenciesBodies : LoadParsed(p, body)
    \/ LoadResumed(p)
    \/ LoadWoke(p)

\* every value a call slot can hold
AllCalls ==
    {Idle} \cup {InCall(op, pc, code) :
                    op \in {"getPrice", "getCurrencies", "load"},
                    pc \in {"fetch", "json", "returned", "sleep"},
                    code \in AskedCodes \cup {""}}

\* the call suspended in slot p moves on: seen on `calls` alone, a step of
\* Settles(p) (SuspendedCanSettle, OnlyOwnSegmentMoves)
Resumes(p) ==
    /\ calls[p] # Idle
    /\ \E c \in AllCalls \ {calls[p]} : calls' = [calls EXCEPT ![p] = c]

\* every issued request eventually completes and every suspended call is
\* eventually resumed; nothing obliges a caller to make a call
SpecLive == Spec /\ \A p \in Slots : WF_calls(Resumes(p))

\* a suspended call can always be resumed, and only its own segments move it
SuspendedCanSettle == \A p \in Slots : calls[p] # Idle => ENABLED Settles(p)
OnlyOwnSegmentMoves ==
    [][\A p \in Slots :
        /\ calls'[p] # calls[p] => last'.slot = p
        /\ (calls[p] # Idle /\ last'.slot = p) => calls'[p] # calls[p]]_vars

\* new AsyncInterval(cb, timeOut): the constructor runs #setInterval up to its
\* first await, so cb is invoked during construction
InitInterval ==
    /\ NewOracle /\ ~ORACLE_ENABLED
    /\ timeOut \in Delays
    /\ \E outcome \in {"throw", "pending"} :
         LET i == setInterval(Interval(TRUE, "new", <<>>), timeOut, outcome)
         IN  active = i.active /\ loop = i.loop /\ timers = i.timers
    /\ hist = [NoHistory EXCEPT !.last = "invoke", !.invoked = 1]

NextInterval ==
    \/ \E outcome \in {"resolve", "reject"} : CbSettles(outcome)
    \/ \E k \in 1..(MaxClears + 1), outcome \in {"throw", "pending"} : SleepFires(k, outcome)
    \/ \E k \in 1..(MaxClears + 1) : ClearFires(k)
    \/ Tick
    \/ \E ms \in Delays : ClearInterval(ms)

SpecInterval == InitInterval /\ [][NextInterval]_vars

\* timers fire, the clock advances, and the promise of every invocation of
\* cb settles; nothing obliges anyone to call clearInterval
SpecIntervalLive ==
    /\ SpecInterval
    /\ WF_vars(\E outcome \in {"resolve", "reject"} : CbSettles(outcome))
    /\ WF_vars(\E k \in 1..(MaxClears + 1), outcome \in {"throw", "pending"} : SleepFires(k, outcome))
    /\ WF_vars(\E k \in 1..(MaxClears + 1) : ClearFires(k))
    /\ WF_vars(Tick)

TypeOK ==
    /\ fLoadedCurrencies \in BOOLEAN
    /\ fOracleDisabled \in BOOLEAN
    /\ nOracleFailures \in 0..(ORACLE_RETRY_LIMIT + MaxCalls)
    /\ nDisabledWarn \in 0..1
    /\ Len(bus) <= 2 * MaxLoads

(* ------------------------------ properties ----------------------------- *)
\* the step is the first segment of a call made in slot p
Started(p) == calls[p] = Idle /\ last'.slot = p
\* the step is the segment of the call in slot p in which its fetch settles
Fetched(p) == calls[p].pc = "fetch" /\ last'.slot = p
\* the step is the segment of the call in slot p in which its json() settles
Parsed(p) == calls[p].pc = "json" /\ last'.slot = p

\* what the cache holds for the call in slot p: the cached price for a
\* getPrice, the cached snapshot for a getCurrencies
Cached(o, op, code) ==
    IF op = "getPrice" THEN getCachedPrice(o, code) ELSE getCachedCurrencies(o)

\* C1: starting from an ACTIVE oracle, once ORACLE_RETRY_LIMIT completions in
\* a row have ended as failures, with no successful completion in between,
\* the oracle is DISABLED.
C1_FailuresInARowDisable ==
    (ORACLE_ENABLED /\ nFailStreak >= ORACLE_RETRY_LIMIT) => fOracleDisabled

\* C2: a 404 received by an ACTIVE oracle whose failure counter is 0 disables
\* the oracle in that same segment, leaves the counter at 0, and the call
\* returns the cached price / the cached snapshot.
C2_NotFoundDisables ==
    [][\A p \in Slots :
        (Fetched(p) /\ last'.how = "notfound" /\ ~fOracleDisabled /\ nOracleFailures = 0)
            => /\ fOracleDisabled'
               /\ nOracleFailures' = 0
               /\ calls'[p].pc \notin {"fetch", "json"}
               /\ last'.ret = Cached(This', calls[p].op, calls[p].code)]_vars

C2_Witness ==
    /\ last.act = "getPrice" /\ last.how = "notfound"
    /\ ~last.wasDisabled /\ fOracleDisabled /\ nOracleFailures = 0
    /\ nFailStreak = 0

\* C3: the disabled flag never goes back to false, and a getPrice or
\* getCurrencies call that starts while the oracle is disabled puts no request
\* in flight, changes nothing, and returns the cached price / snapshot.
C3_DisabledIsFinal ==
    [][/\ fOracleDisabled => fOracleDisabled'
       /\ \A p \in Slots :
            (Started(p) /\ last'.act \in {"getPrice", "getCurrencies"} /\ fOracleDisabled)
                => /\ calls' = calls
                   /\ InFlight' = InFlight
                   /\ This' = This
                   /\ last'.ret = Cached(This, last'.act, last'.code)]_vars

C3_Witness ==
    /\ ORACLE_ENABLED /\ fOracleDisabled /\ last.wasDisabled
    /\ last.act = "getPrice" /\ last.how = "skipped"
    /\ MapHas(mapCurrencies, last.code) /\ last.ret # Num(0)

\* C4: while the oracle is disabled the cache has an entry for each of usd,
\* eur, gbp and btc, and every entry made by the fallback seeding has value 0.
C4_FallbackPresent ==
    fOracleDisabled =>
        /\ \A i \in 1..Len(FALLBACK_CURRENCIES) : MapHas(mapCurrencies, FALLBACK_CURRENCIES[i])
        /\ \A k \in Codes :
            (MapGet(mapCurrencies, k).kind = "rec" /\ MapGet(mapCurrencies, k).origin = "fallback")
                => MapGet(mapCurrencies, k).value = 0

C4_Witness ==
    /\ ORACLE_ENABLED /\ fOracleDisabled
    /\ MapGet(mapCurrencies, "usd").kind = "rec" /\ MapGet(mapCurrencies, "usd").origin = "net"
    /\ MapGet(mapCurrencies, "btc") = Currency("btc", 0, "fallback")

\* C5: the step that disables the oracle leaves every entry the cache already
\* had as it was, also those under usd, eur, gbp and btc, and the entries it
\* adds are fallback entries for fallback codes that were absent.
C5_DisablePreservesCache ==
    [][(~fOracleDisabled /\ fOracleDisabled') =>
        \A k \in Codes :
            /\ MapHas(mapCurrencies, k) => MapGet(mapCurrencies', k) = MapGet(mapCurrencies, k)
            /\ (~MapHas(mapCurrencies, k) /\ MapHas(mapCurrencies', k))
                => /\ \E i \in 1..Len(FALLBACK_CURRENCIES) : FALLBACK_CURRENCIES[i] = k
                   /\ MapGet(mapCurrencies', k) = Currency(k, 0, "fallback")]_vars

C5_Witness ==
    /\ fOracleDisabled /\ ~last.wasDisabled
    /\ MapGet(mapCurrencies, "usd").kind = "rec" /\ MapGet(mapCurrencies, "usd").origin = "net"
    /\ MapGet(mapCurrencies, "eur") = Currency("eur", 0, "fallback")
    /\ MapHas(mapCurrencies, "jpy")

C7_StoredUnderRecordCurrency ==
    [][\A p \in Slots :
        (Parsed(p) /\ last'.act = "getPrice" /\ last'.how = "success")
            => /\ MapGet(mapCurrencies', last'.body.currency) = last'.body
               /\ last'.ret = Num(last'.body.value)]_vars

\* C7 (amended): a getPrice(code) that parses record r stores r under the
\* requested code, also when r.currency differs from it, changes no other
\* key of the cache, and returns r.value.
C7_StoredUnderRequestedCode ==
    [][\A p \in Slots :
        (Parsed(p) /\ last'.act = "getPrice" /\ last'.how = "success")
            => /\ MapGet(mapCurrencies', calls[p].code) = last'.body
               /\ \A k \in Codes \ {calls[p].code} :
                    MapGet(mapCurrencies', k) = MapGet(mapCurrencies, k)
               /\ last'.ret = Num(last'.body.value)]_vars

C7_Witness ==
    /\ last.act = "getPrice" /\ last.how = "success"
    /\ last.body.currency # last.code
    /\ MapGet(mapCurrencies, last.code) = last.body
    /\ ~MapHas(mapCurrencies, last.body.currency)

\* the value of the last record of arr whose currency is c
LastValue(arr, c) ==
    LET at == {i \in 1..Len(arr) : arr[i].currency = c}
    IN  arr[CHOOSE i \in at : \A j \in at : j <= i].value

\* the step is a getCurrencies (also the one inside load) that parsed a
\* non-empty list of records
ParsedList(p) ==
    Parsed(p) /\ last'.act \in {"getCurrencies", "load"} /\ last'.how = "success"

\* C8 as claimed: after a getCurrencies that parsed a non-empty list of
\* records the loaded flag is true, the failure counter is 0, the call has
\* returned the list, and getCachedPrice(r.currency) = r.value for every
\* record r of the list.
C8_EveryRecordRetrievable ==
    [][\A p \in Slots :
        ParsedList(p)
            => /\ fLoadedCurrencies' /\ nOracleFailures' = 0
               /\ last'.ret = last'.body
               /\ \A i \in 1..Len(last'.body.items) :
                    getCachedPrice(This', last'.body.items[i].currency)
                        = Num(last'.body.items[i].value)]_vars

\* C8 (amended): ... and for every record r of the list
\* getCachedPrice(r.currency) is the value of the last record of the list
\* that has the currency of r.
C8_LastRecordRetrievable ==
    [][\A p \in Slots :
        ParsedList(p)
            => /\ fLoadedCurrencies' /\ nOracleFailures' = 0
               /\ last'.ret = last'.body
               /\ \A i \in 1..Len(last'.body.items) :
                    getCachedPrice(This', last'.body.items[i].currency)
                        = Num(LastValue(last'.body.items, last'.body.items[i].currency))]_vars

C8_Witness ==
    /\ last.act = "getCurrencies" /\ last.how = "success"
    /\ last.ret = last.body
    /\ Len(last.body.items) = 2
    /\ last.body.items[1].currency = last.body.items[2].currency
    /\ last.body.items[1].value # last.body.items[2].value
    /\ getCachedPrice(This, last.body.items[1].currency) = Num(last.body.items[2].value)

\* C9: the bus log is, for each completed load(), one 'currency-loaded'
\* followed by one 'price-update', and nothing else; nothing is emitted while
\* the loaded flag is false.
C9_LoadEmitsPair ==
    /\ Len(bus) = 2 * nLoadsDone
    /\ \A i \in 1..Len(bus) :
            bus[i] = IF i % 2 = 1 THEN "currency-loaded" ELSE "price-update"
    /\ bus # <<>> => fLoadedCurrencies

C9_Witness ==
    /\ ORACLE_ENABLED /\ ~fOracleDisabled
    /\ last.act = "load" /\ last.how = "loaded"
    /\ nLoadsDone = 1 /\ bus = <<"currency-loaded", "price-update">>

\* C10: a load() called while the oracle is disabled ends in its first
\* segment: no request is put in flight, it does not sleep, and it emits
\* 'currency-loaded' and 'price-update' once each.
C10_LoadWhenDisabled ==
    [][\A p \in Slots :
        (Started(p) /\ last'.act = "load" /\ fOracleDisabled)
            => /\ calls' = calls
               /\ This' = This
               /\ last'.how = "loaded"
               /\ bus' = bus \o <<"currency-loaded", "price-update">>]_vars

C10_Witness ==
    /\ ~ORACLE_ENABLED /\ fOracleDisabled
    /\ last.act = "load" /\ last.how = "loaded" /\ last.wasDisabled
    /\ bus = <<"currency-loaded", "price-update">>
    /\ \A p \in Slots : calls[p] = Idle

\* the cache right after the fallback seeding of an empty cache
FallbackOnly ==
    [k \in Codes |->
        IF \E i \in 1..Len(FALLBACK_CURRENCIES) : FALLBACK_CURRENCIES[i] = k
        THEN Currency(k, 0, "fallback") ELSE Undefined]

\* C12: with ORACLE_ENABLED false the oracle is, from its construction on,
\* disabled and loaded with failure counter 0 and a cache of exactly the four
\* fallback entries at value 0, and no getPrice, getCurrencies or load call
\* ever puts a request in flight (every call ends in its first segment).
C12_DisabledAtConstruction ==
    ~ORACLE_ENABLED =>
        /\ fOracleDisabled /\ fLoadedCurrencies /\ nOracleFailures = 0
        /\ mapCurrencies = FallbackOnly
        /\ InFlight = {}
        /\ \A p \in Slots : calls[p] = Idle

C12_Witness ==
    /\ ~ORACLE_ENABLED
    /\ last.act = "getCurrencies" /\ last.how = "skipped"
    /\ last.ret = List(<<Currency("usd", 0, "fallback"), Currency("eur", 0, "fallback"),
                         Currency("gbp", 0, "fallback"), Currency("btc", 0, "fallback")>>)
    /\ nLoadsDone = 1

\* C16: the failure counter is the number of completions that ended as a
\* failure since the last successful completion (or since construction).
\* nFailStreak counts them up to StreakCap.
C16_CounterIsStreak ==
    Min(nOracleFailures, StreakCap) = nFailStreak

\* C17: the loaded flag never goes back to false; it becomes true only in a
\* step that disables the oracle or in which a getCurrencies parsed a
\* non-empty list of records (never in a segment of getPrice); and a disabled
\* oracle is loaded.
C17_LoadedFlag ==
    [][/\ fLoadedCurrencies => fLoadedCurrencies'
       /\ (~fLoadedCurrencies /\ fLoadedCurrencies')
            => \/ ~fOracleDisabled /\ fOracleDisabled'
               \/ \E p \in Slots : ParsedList(p)
       /\ (~fLoadedCurrencies /\ fLoadedCurrencies' /\ ~fOracleDisabled')
            => last'.act # "getPrice"
       /\ fOracleDisabled => fLoadedCurrencies
       /\ fOracleDisabled' => fLoadedCurrencies']_vars

C17_Witness ==
    /\ fLoadedCurrencies /\ ~fOracleDisabled
    /\ last.act = "getCurrencies" /\ last.how = "success"
    /\ last.body.kind = "list"

\* the step is a completion that triggers disablement: a 404, or a failure
\* that leaves the counter at or above the limit
TriggersDisable(p) ==
    /\ Fetched(p) \/ Parsed(p)
    /\ \/ last'.how = "notfound"
       \/ last'.how = "failure" /\ nOracleFailures' >= ORACLE_RETRY_LIMIT

\* C18: a completion that triggers disablement on an oracle already disabled
\* leaves the cache and the two flags as they were and logs no 'Oracle
\* disabled' diagnostic; that diagnostic is logged at most once.
C18_DisableIdempotent ==
    [][/\ nDisabledWarn' <= 1
       /\ \A p \in Slots :
            (TriggersDisable(p) /\ fOracleDisabled)
                => /\ mapCurrencies' = mapCurrencies
                   /\ fOracleDisabled' /\ fLoadedCurrencies' = fLoadedCurrencies
                   /\ nDisabledWarn' = nDisabledWarn]_vars

C18_Witness ==
    /\ last.wasDisabled /\ fOracleDisabled
    /\ last.how = "failure" /\ nOracleFailures > ORACLE_RETRY_LIMIT
    /\ nDisabledWarn = 1

\* C19: a failure counter at or above ORACLE_RETRY_LIMIT implies a disabled
\* oracle, whatever the interleaving of the calls in flight.
C19_ActiveBelowLimit ==
    nOracleFailures >= ORACLE_RETRY_LIMIT => fOracleDisabled

C19_Witness ==
    /\ fOracleDisabled /\ nOracleFailures = ORACLE_RETRY_LIMIT + 1
    /\ last.act = "getCurrencies" /\ last.how = "failure" /\ last.wasDisabled

\* C20: a completion that ends by recording a failure adds exactly 1 to the
\* failure counter and leaves the cache as it was, except for the fallback
\* seeding when it disables the oracle.
C20_FailureAddsOne ==
    [][\A p \in Slots :
        ((Fetched(p) \/ Parsed(p)) /\ last'.how = "failure")
            => /\ nOracleFailures' = nOracleFailures + 1
               /\ mapCurrencies' =
                    IF ~fOracleDisabled /\ fOracleDisabled'
                    THEN SeedFrom(mapCurrencies, 1) ELSE mapCurrencies]_vars

\* C11 as claimed: provided every issued request eventually completes, every
\* load() call on an ACTIVE oracle eventually completes, whatever the
\* concurrently running getPrice and getCurrencies calls do.
C11_LoadCompletes ==
    \A p \in Slots :
        (ORACLE_ENABLED /\ calls[p].op = "load") ~> (calls[p].op # "load")

\* C11 as the code has it: a load() call in flight completes once the loaded
\* flag is true, it completes only with the flag true, and it ends by emitting
\* 'currency-loaded' and 'price-update', never in an error.
C11_LoadCompletesOnceLoaded ==
    /\ \A p \in Slots :
            (calls[p].op = "load" /\ fLoadedCurrencies) ~> (calls[p].op # "load")
    /\ [][\A p \in Slots :
            (calls[p].op = "load" /\ calls'[p].op # "load")
                => /\ fLoadedCurrencies
                   /\ last'.how = "loaded"
                   /\ bus' = bus \o <<"currency-loaded", "price-update">>]_vars

C11_Witness ==
    /\ ORACLE_ENABLED /\ fLoadedCurrencies /\ ~fOracleDisabled
    /\ \E p \in Slots : calls[p].op = "load" /\ calls[p].pc = "sleep"

\* C13: an AsyncInterval whose callback fails on every invocation and on
\* which clearInterval is never called invokes the callback again and again,
\* for ever; no failure escapes the loop, and the loop never ends unless
\* clearInterval has been called.
C13_FailingCallbackRepeats ==
    /\ [](~hist.everOk /\ hist.clears = 0)
            => /\ []<>(hist.last = "invoke")
               /\ <>(hist.invoked >= InvokedCap)
    /\ [](loop # "rejected" /\ (hist.clears = 0 => loop \in {"cb", "sleep"}))

C13_Witness ==
    /\ ~hist.everOk /\ hist.clears = 0
    /\ hist.last = "invoke" /\ hist.invoked >= InvokedCap
    /\ loop = "sleep"

\* C14: once clearInterval(0) has been called on a running interval, at most
\* one invocation of the callback still runs (the one in flight at the call,
\* or one started before the zero-delay timer fires), and no invocation
\* starts once that timer has fired.
C14_AtMostOneMore ==
    [][/\ hist'.zeroed => hist'.since <= 1
       /\ ~active => hist'.last # "invoke"]_vars

C14_Witness ==
    /\ hist.zeroed /\ hist.since = 1 /\ hist.last = "exit"
    /\ loop = "done" /\ ~active

\* the number of timers of a clearInterval that are pending
PendingClears == Cardinality({k \in 1..Len(timers) : timers[k].what = "clear"})

\* C15: clearInterval(delay) itself changes neither the active flag nor where
\* the loop is; the flag becomes false only when a timer of clearInterval
\* fires; a callback in flight is left only by its promise settling, a sleep
\* only by its timer firing, and the loop ends only at the while test after
\* a sleep, with the flag false; until then new iterations start.
C15_DeferredCancellation ==
    [][/\ hist'.last = "clear"
            => /\ active' = active /\ loop' = loop
               /\ PendingClears' = PendingClears + 1
       /\ (active /\ ~active') => (hist'.last = "fired" /\ loop' = loop)
       /\ (loop = "cb" /\ loop' # "cb") => (hist'.last = "settle" /\ loop' = "sleep")
       /\ (loop = "sleep" /\ loop' # "sleep") => hist'.last \in {"invoke", "exit"}
       /\ (loop # "done" /\ loop' = "done")
            => (loop = "sleep" /\ ~active /\ hist'.last = "exit")
       /\ (hist'.last \in {"invoke", "exit"} /\ active) => hist'.last = "invoke"]_vars

C15_Witness ==
    /\ hist.last = "invoke" /\ hist.invoked >= 2
    /\ active /\ PendingClears > 0 /\ loop = "cb"

====
